---- MODULE Spec2Model ----
(***************************************************************************)
(* dfs-notifier: the two scheduled route handlers.                         *)
(*                                                                         *)
(* Job A (new project notifier) exists in two variants:                    *)
(*   "persisted"  src/src/app/api/cron/route.ts, watermark in Redis        *)
(*   "memory"     src/unnamed/part_000, watermark in a module variable     *)
(* Job B (countdown notifier) is src/src/app/api/ppp-notifer/route.ts.     *)
(*                                                                         *)
(* A project is represented by its id: the other fields of a row only      *)
(* feed the message text.  The collaborators answer as their contracts     *)
(* say (rows, an array of balances, an HTTP status) or fail in transport;  *)
(* the webhook URL is configured.  Every await of a handler is one         *)
(* position of inv[p].pc, and an action is the resolution of that await    *)
(* together with the synchronous code that runs up to the next await.      *)
(***************************************************************************)
EXTENDS Integers, Sequences, FiniteSets, TLC

\* ---- bounds ----
NumNewIds == 2
MaxInvocations == 3
MaxProjectsB == 2

\* ---- program constants ----
SeedPersisted == 113
SeedMemory == 112
MsPerSecond == 1000
MsPerMinute == 60000
ThresholdLong == 10
ThresholdShort == 3

Ids == SeedMemory..(SeedPersisted + NumNewIds)
\* invocation slots: two can overlap; successive invocations reuse the first
Procs == {1, 2}
Solo == {1}
Outcomes == {"ok", "non2xx", "neterr"}

VARIABLES
  variant,        \* which Job A variant is deployed
  store,          \* Redis value under 'last_project_id': <<>> (absent) or <<n>>
  lastProjectId,  \* module variable of the memory variant
  chain,          \* ids of the rows of the projects table, as last read
  inv,            \* per invocation slot: position and locals of GET
  attempts,       \* id -> number of sendDingTalkMessage calls made for it
  failedIds,      \* ids whose webhook send failed at least once
  maxWritten,     \* highest value ever written to the store
  crashSent,      \* ids sent by the latest invocation terminated before persisting
  invocations,    \* number of triggers so far
  job             \* Job B: position, inputs and log of one invocation

vars == <<variant, store, lastProjectId, chain, inv, attempts, failedIds,
          maxWritten, crashSent, invocations, job>>

varsA == <<variant, store, lastProjectId, chain, inv, attempts, failedIds,
           maxWritten, crashSent, invocations>>

\* ---- helpers ----
Range(s) == {s[i] : i \in 1..Len(s)}

Max2(a, b) == IF a >= b THEN a ELSE b

\* rows of a reverse scan of the primary index: descending by id
RECURSIVE SortDesc(_)
SortDesc(S) ==
  IF S = {} THEN <<>>
  ELSE LET m == CHOOSE x \in S : \A y \in S : y <= x
       IN <<m>> \o SortDesc(S \ {m})

\* Number(v): null converts to 0
NumberOf(v) == IF v = <<>> THEN 0 ELSE v[1]

\* variant reading: the stored value is ignored
LoadSeedOnly(v) == SeedPersisted

\* Number(await redis.get(KEY)) || 113
LoadLastProjectId(v) == IF NumberOf(v) # 0 THEN NumberOf(v) ELSE SeedPersisted

\* variant filter: p.id >= lastProjectId
NewProjectsInclusive(projects, last) == SelectSeq(projects, LAMBDA id : id >= last)

\* variant filter: only projects[0] is notified
NewProjectsNewestOnly(projects, last) ==
  IF Len(projects) > 0 /\ projects[1] > last THEN <<projects[1]>> ELSE <<>>

\* projects.filter(p => p.id > lastProjectId)
NewProjects(projects, last) == SelectSeq(projects, LAMBDA id : id > last)

\* the watermark a reader of the deployment sees (seed when nothing is stored)
Watermark ==
  IF variant = "persisted"
  THEN (IF store = <<>> THEN SeedPersisted ELSE store[1])
  ELSE lastProjectId

Fresh ==
  [pc |-> "idle", projects |-> <<>>, latestProjectId |-> 0, last |-> 0,
   newProjects |-> <<>>, idx |-> 0, sent |-> <<>>, failed |-> {},
   wmStart |-> 0, threw |-> "none", wrote |-> FALSE, success |-> "none"]

JobIdle ==
  [pc |-> "idle", projects |-> <<>>, liked |-> {}, idx |-> 0, now |-> 0, checks |-> <<>>]

TypeOK ==
  /\ variant \in {"persisted", "memory"}
  /\ store \in {<<>>} \cup {<<n>> : n \in Ids}
  /\ lastProjectId \in Ids
  /\ chain \subseteq Ids
  /\ \A p \in Procs : inv[p].pc \in {"idle", "fetch", "get", "send", "set", "done"}
  /\ invocations \in 0..MaxInvocations

InitA ==
  /\ variant \in {"persisted", "memory"}
  /\ store = <<>>
  /\ lastProjectId = SeedMemory
  /\ chain = {}
  /\ inv = [p \in Procs |-> Fresh]
  /\ attempts = [id \in Ids |-> 0]
  /\ failedIds = {}
  /\ maxWritten = 0
  /\ crashSent = {}
  /\ invocations = 0

Init == InitA /\ job = JobIdle

\* ---- Job A ----

\* the scheduler's GET arrives while no other invocation is running
Trigger(p) ==
  /\ inv[p].pc = "idle"
  /\ \A q \in Procs : inv[q].pc = "idle"
  /\ invocations < MaxInvocations
  /\ invocations' = invocations + 1
  /\ inv' = [inv EXCEPT ![p] = [Fresh EXCEPT !.pc = "fetch", !.wmStart = Watermark]]
  /\ UNCHANGED <<variant, store, lastProjectId, chain, attempts, failedIds,
                 maxWritten, crashSent, job>>

\* return NextResponse.json({ success: true }) with nothing to do
Finished(r) == [r EXCEPT !.pc = "done", !.success = "true"]

\* await fetchProjects() resolves with the rows of table c (or [] after a caught
\* failure), then GET runs to its next await
FetchProjects(p, c, ok) ==
  /\ inv[p].pc = "fetch"
  /\ chain' = IF ok THEN c ELSE chain
  /\ LET rows == IF ok THEN SortDesc(c) ELSE <<>>
         r0 == [inv[p] EXCEPT !.projects = rows]
     IN IF Len(rows) = 0
        THEN /\ inv' = [inv EXCEPT ![p] = Finished(r0)]
             /\ UNCHANGED lastProjectId
        ELSE LET r1 == [r0 EXCEPT !.latestProjectId = rows[1]]
             IN IF variant = "persisted"
                THEN /\ inv' = [inv EXCEPT ![p] = [r1 EXCEPT !.pc = "get"]]
                     /\ UNCHANGED lastProjectId
                ELSE IF lastProjectId > 0 /\ rows[1] > lastProjectId
                     THEN /\ inv' = [inv EXCEPT ![p] =
                                 [r1 EXCEPT !.pc = "send",
                                            !.last = lastProjectId,
                                            !.newProjects = NewProjects(rows, lastProjectId),
                                            !.idx = 1]]
                          /\ UNCHANGED lastProjectId
                     ELSE /\ lastProjectId' = rows[1]
                          /\ inv' = [inv EXCEPT ![p] =
                                 Finished([r1 EXCEPT !.last = lastProjectId, !.wrote = TRUE])]
  /\ UNCHANGED <<variant, store, attempts, failedIds, maxWritten, crashSent,
                 invocations, job>>

\* variant order: the watermark is written before the sends
RedisGetPersistFirst(p) ==
  /\ inv[p].pc = "get"
  /\ LET last == LoadLastProjectId(store)
         r0 == [inv[p] EXCEPT !.last = last]
     IN IF inv[p].latestProjectId > last
        THEN /\ inv' = [inv EXCEPT ![p] =
                    [r0 EXCEPT !.pc = "send",
                               !.newProjects = NewProjects(inv[p].projects, last),
                               !.idx = 1,
                               !.wrote = TRUE]]
             /\ store' = <<inv[p].latestProjectId>>
             /\ maxWritten' = Max2(maxWritten, inv[p].latestProjectId)
        ELSE /\ inv' = [inv EXCEPT ![p] = Finished(r0)]
             /\ UNCHANGED <<store, maxWritten>>
  /\ UNCHANGED <<variant, lastProjectId, chain, attempts, failedIds,
                 crashSent, invocations, job>>

\* await redis.get(KEY) resolves; compare, filter, start the first send
RedisGet(p) ==
  /\ inv[p].pc = "get"
  /\ LET last == LoadLastProjectId(store)
         r0 == [inv[p] EXCEPT !.last = last]
     IN IF inv[p].latestProjectId > last
        THEN inv' = [inv EXCEPT ![p] =
                 [r0 EXCEPT !.pc = "send",
                            !.newProjects = NewProjects(inv[p].projects, last),
                            !.idx = 1]]
        ELSE inv' = [inv EXCEPT ![p] = Finished(r0)]
  /\ UNCHANGED <<variant, store, lastProjectId, chain, attempts, failedIds,
                 maxWritten, crashSent, invocations, job>>

\* variant sender: a failed POST is rethrown and reaches the catch of GET
SendAbortOnFailure(p, outcome) ==
  /\ inv[p].pc = "send"
  /\ LET id == inv[p].newProjects[inv[p].idx]
         r0 == [inv[p] EXCEPT !.sent = Append(@, id),
                              !.failed = IF outcome = "ok" THEN @ ELSE @ \cup {id}]
     IN /\ attempts' = [attempts EXCEPT ![id] = @ + 1]
        /\ failedIds' = IF outcome = "ok" THEN failedIds ELSE failedIds \cup {id}
        /\ IF outcome # "ok"
           THEN /\ inv' = [inv EXCEPT ![p] = [r0 EXCEPT !.pc = "done", !.success = "false"]]
                /\ UNCHANGED lastProjectId
           ELSE IF inv[p].idx < Len(inv[p].newProjects)
           THEN /\ inv' = [inv EXCEPT ![p] = [r0 EXCEPT !.idx = @ + 1]]
                /\ UNCHANGED lastProjectId
           ELSE IF variant = "persisted"
                THEN /\ inv' = [inv EXCEPT ![p] = [r0 EXCEPT !.pc = "set"]]
                     /\ UNCHANGED lastProjectId
                ELSE /\ lastProjectId' = inv[p].latestProjectId
                     /\ inv' = [inv EXCEPT ![p] = Finished([r0 EXCEPT !.wrote = TRUE])]
  /\ UNCHANGED <<variant, store, chain, maxWritten, crashSent, invocations, job>>

\* await sendDingTalkMessage(newProjects[idx]) resolves: the POST was made and
\* its outcome (2xx, non-2xx, network error) was caught inside; next project,
\* or leave the loop
Send(p, outcome) ==
  /\ inv[p].pc = "send"
  /\ LET id == inv[p].newProjects[inv[p].idx]
         r0 == [inv[p] EXCEPT !.sent = Append(@, id),
                              !.failed = IF outcome = "ok" THEN @ ELSE @ \cup {id}]
     IN /\ attempts' = [attempts EXCEPT ![id] = @ + 1]
        /\ failedIds' = IF outcome = "ok" THEN failedIds ELSE failedIds \cup {id}
        /\ IF inv[p].idx < Len(inv[p].newProjects)
           THEN /\ inv' = [inv EXCEPT ![p] = [r0 EXCEPT !.idx = @ + 1]]
                /\ UNCHANGED lastProjectId
           ELSE IF variant = "persisted"
                THEN /\ inv' = [inv EXCEPT ![p] = [r0 EXCEPT !.pc = "set"]]
                     /\ UNCHANGED lastProjectId
                ELSE /\ lastProjectId' = inv[p].latestProjectId
                     /\ inv' = [inv EXCEPT ![p] = Finished([r0 EXCEPT !.wrote = TRUE])]
  /\ UNCHANGED <<variant, store, chain, maxWritten, crashSent, invocations, job>>

\* variant write: the stored value is only ever raised
RedisSetMax(p) ==
  /\ inv[p].pc = "set"
  /\ store' = <<Max2(NumberOf(store), inv[p].latestProjectId)>>
  /\ maxWritten' = Max2(maxWritten, inv[p].latestProjectId)
  /\ inv' = [inv EXCEPT ![p] = Finished([inv[p] EXCEPT !.wrote = TRUE])]
  /\ UNCHANGED <<variant, lastProjectId, chain, attempts, failedIds, crashSent,
                 invocations, job>>

\* await redis.set(KEY, latestProjectId) resolves
RedisSet(p) ==
  /\ inv[p].pc = "set"
  /\ store' = <<inv[p].latestProjectId>>
  /\ maxWritten' = Max2(maxWritten, inv[p].latestProjectId)
  /\ inv' = [inv EXCEPT ![p] = Finished([inv[p] EXCEPT !.wrote = TRUE])]
  /\ UNCHANGED <<variant, lastProjectId, chain, attempts, failedIds, crashSent,
                 invocations, job>>

\* the response reaches the scheduler; the slot is free again
Respond(p) ==
  /\ inv[p].pc = "done"
  /\ inv' = [inv EXCEPT ![p] = Fresh]
  /\ crashSent' = {}
  /\ UNCHANGED <<variant, store, lastProjectId, chain, attempts, failedIds,
                 maxWritten, invocations, job>>

\* variant handling: a rejected read is caught where it happens and the seed used
RedisGetCaught(p) ==
  /\ inv[p].pc = "get"
  /\ LET last == SeedPersisted
         r0 == [inv[p] EXCEPT !.last = last, !.threw = "get"]
     IN IF inv[p].latestProjectId > last
        THEN inv' = [inv EXCEPT ![p] =
                 [r0 EXCEPT !.pc = "send",
                            !.newProjects = NewProjects(inv[p].projects, last),
                            !.idx = 1]]
        ELSE inv' = [inv EXCEPT ![p] = Finished(r0)]
  /\ UNCHANGED <<variant, store, lastProjectId, chain, attempts, failedIds,
                 maxWritten, crashSent, invocations, job>>

\* await redis.get(KEY) rejects: control goes to the catch of GET, which
\* returns { success: false, error: 'Internal server error' } with status 500
RedisGetThrows(p) ==
  /\ inv[p].pc = "get"
  /\ inv' = [inv EXCEPT ![p] = [@ EXCEPT !.pc = "done", !.threw = "get", !.success = "false"]]
  /\ UNCHANGED <<variant, store, lastProjectId, chain, attempts, failedIds,
                 maxWritten, crashSent, invocations, job>>

\* await redis.set(KEY, latestProjectId) rejects, the write is not made: same catch
RedisSetThrows(p) ==
  /\ inv[p].pc = "set"
  /\ inv' = [inv EXCEPT ![p] = [@ EXCEPT !.pc = "done", !.threw = "set", !.success = "false"]]
  /\ UNCHANGED <<variant, store, lastProjectId, chain, attempts, failedIds,
                 maxWritten, crashSent, invocations, job>>

\* the scheduler's GET arrives while another invocation may still be running
TriggerOverlap(p) ==
  /\ inv[p].pc = "idle"
  /\ invocations < MaxInvocations
  /\ invocations' = invocations + 1
  /\ inv' = [inv EXCEPT ![p] = [Fresh EXCEPT !.pc = "fetch", !.wmStart = Watermark]]
  /\ UNCHANGED <<variant, store, lastProjectId, chain, attempts, failedIds,
                 maxWritten, crashSent, job>>

\* the host ends the invocation at one of its awaits (crash, execution-time
\* limit): nothing after the await runs and no response is produced
Crash(p) ==
  /\ inv[p].pc # "idle"
  /\ crashSent' = IF inv[p].pc \in {"send", "set"} THEN Range(inv[p].sent) ELSE {}
  /\ inv' = [inv EXCEPT ![p] = Fresh]
  /\ UNCHANGED <<variant, store, lastProjectId, chain, attempts, failedIds,
                 maxWritten, invocations, job>>

\* tables the source can hold next when it only ever adds rows with larger ids
Grow(c) ==
  {d \in SUBSET Ids : c \subseteq d /\ \A x \in d \ c : \A y \in c : x > y}

\* what the table read can return: the rows of any table, or nothing on failure
Tables(ok) == IF ok THEN SUBSET Ids ELSE {chain}

\* the same when the source only ever adds rows with larger ids
GrownTables(ok) == IF ok THEN Grow(chain) ELSE {chain}

Step(p) ==
  \/ \E ok \in BOOLEAN : \E c \in Tables(ok) : FetchProjects(p, c, ok)
  \/ RedisGet(p)
  \/ \E o \in Outcomes : Send(p, o)
  \/ RedisSet(p)
  \/ Respond(p)

Next ==
  \/ \E p \in Solo : Trigger(p)
  \/ \E p \in Solo, ok \in BOOLEAN : \E c \in Tables(ok) : FetchProjects(p, c, ok)
  \/ \E p \in Solo : RedisGet(p)
  \/ \E p \in Solo, o \in Outcomes : Send(p, o)
  \/ \E p \in Solo : RedisSet(p)
  \/ \E p \in Solo : Respond(p)

\* non-overlapping invocations, any table contents, a working store
Spec == Init /\ [][Next]_vars

NextStore ==
  \/ Next
  \/ \E p \in Solo : RedisGetThrows(p)
  \/ \E p \in Solo : RedisSetThrows(p)

\* as Spec, and the store may reject a read or a write
SpecStore == Init /\ [][NextStore]_vars

InitOverlap == Init /\ variant = "persisted"

NextOverlap ==
  \/ \E p \in Procs : TriggerOverlap(p)
  \/ \E p \in Procs, ok \in BOOLEAN : \E c \in GrownTables(ok) : FetchProjects(p, c, ok)
  \/ \E p \in Procs : RedisGet(p)
  \/ \E p \in Procs, o \in Outcomes : Send(p, o)
  \/ \E p \in Procs : RedisSet(p)
  \/ \E p \in Procs : Respond(p)

\* the persisted variant with overlapping invocations, the source only adding rows
SpecOverlap == InitOverlap /\ [][NextOverlap]_vars

NextCrash ==
  \/ Next
  \/ \E p \in Solo : Crash(p)

\* as Spec, and the host may end an invocation at any await; an await that is
\* not cut short resolves, and the scheduler keeps triggering
SpecCrash ==
  /\ Init
  /\ [][NextCrash]_vars
  /\ WF_vars(\E p \in Solo : Trigger(p))
  /\ \A p \in Solo : WF_vars(Step(p))

NextMono ==
  \/ \E p \in Solo : Trigger(p)
  \/ \E p \in Solo, ok \in BOOLEAN : \E c \in GrownTables(ok) : FetchProjects(p, c, ok)
  \/ \E p \in Solo : RedisGet(p)
  \/ \E p \in Solo, o \in Outcomes : Send(p, o)
  \/ \E p \in Solo : RedisSet(p)
  \/ \E p \in Solo : Respond(p)

\* non-overlapping invocations against a source that only adds larger ids
SpecMono == Init /\ [][NextMono]_vars

\* ---- Job B ----
\* last_round is represented by the instant (ms) that new Date(last_round) yields

BIds == 1..MaxProjectsB
LastRounds == {30500}
SecPerRound == {600, 1200}
Elapsed == {0, 1, 360001, 420001, 590000, 600000, 600001, 1020000, 1260000}
Nows == {lr + e : lr \in LastRounds, e \in Elapsed}

\* the rows of the projects table, newest first
RowsOf(S, f) ==
  LET ids == SortDesc(S)
  IN [i \in 1..Len(ids) |->
        [id |-> ids[i], last_round |-> f[ids[i]][1], sec_per_round |-> f[ids[i]][2]]]

\* Math.trunc in place of Math.floor
CheckProjectCountdownTrunc(project, now) ==
  LET nextRound == project.last_round + (project.sec_per_round * MsPerSecond)
      timeDiffMs == nextRound - now
      timeDiffMinutes == IF timeDiffMs >= 0
                         THEN timeDiffMs \div MsPerMinute
                         ELSE -((-timeDiffMs) \div MsPerMinute)
  IN [shouldNotify |-> (timeDiffMinutes = ThresholdLong \/ timeDiffMinutes = ThresholdShort),
      minutesLeft |-> timeDiffMinutes]

\* checkProjectCountdown(project), with the value of new Date() as now
CheckProjectCountdown(project, now) ==
  LET nextRound == project.last_round + (project.sec_per_round * MsPerSecond)
      timeDiffMs == nextRound - now
      timeDiffMinutes == timeDiffMs \div MsPerMinute
  IN [shouldNotify |-> (timeDiffMinutes = ThresholdLong \/ timeDiffMinutes = ThresholdShort),
      minutesLeft |-> timeDiffMinutes]

BTrigger ==
  /\ job.pc = "idle"
  /\ job' = [JobIdle EXCEPT !.pc = "fetchProjects"]
  /\ UNCHANGED varsA

\* await fetchProjects() resolves (an empty S also stands for the caught failure)
BFetchProjects(S, f) ==
  /\ job.pc = "fetchProjects"
  /\ job' = [job EXCEPT !.pc = "fetchLiked", !.projects = RowsOf(S, f)]
  /\ UNCHANGED varsA

\* await fetchLikedProjects("zhaoyunhello") resolves with the pids of its rows
BFetchLiked(liked) ==
  /\ job.pc = "fetchLiked"
  /\ job' = [job EXCEPT !.liked = liked,
                        !.idx = 1,
                        !.pc = IF Len(job.projects) = 0 THEN "done" ELSE "loop"]
  /\ UNCHANGED varsA

\* one iteration of the loop over projects; the clock reads now
BCheck(now) ==
  /\ job.pc = "loop"
  /\ now >= job.now
  /\ LET project == job.projects[job.idx]
         isLiked == \E lp \in job.liked : lp = project.id
         r == CheckProjectCountdown(project, now)
         entry == [id |-> project.id, liked |-> isLiked,
                   last_round |-> project.last_round,
                   sec_per_round |-> project.sec_per_round, now |-> now,
                   minutesLeft |-> IF isLiked THEN r.minutesLeft ELSE 0,
                   notified |-> isLiked /\ r.shouldNotify]
     IN job' = [job EXCEPT !.checks = Append(@, entry),
                           !.now = now,
                           !.idx = @ + 1,
                           !.pc = IF job.idx < Len(job.projects) THEN "loop" ELSE "done"]
  /\ UNCHANGED varsA

BRespond ==
  /\ job.pc = "done"
  /\ job' = JobIdle
  /\ UNCHANGED varsA

NextB ==
  \/ BTrigger
  \/ \E S \in SUBSET BIds : \E f \in [S -> LastRounds \X SecPerRound] : BFetchProjects(S, f)
  \/ \E liked \in SUBSET BIds : BFetchLiked(liked)
  \/ \E now \in Nows : BCheck(now)
  \/ BRespond

InitB == InitA /\ variant = "persisted" /\ job = JobIdle

\* the countdown job alone
SpecB == InitB /\ [][NextB]_vars

\* ---- properties ----

\* C1: when an invocation that fetched a non-empty descending list has finished
\* its sends, the projects it called sendDingTalkMessage for are exactly, once
\* each, the projects of the list whose id exceeds the watermark at its start.
C1_NewSetIsAboveWatermark ==
  \A p \in Procs :
    (inv[p].pc \in {"set", "done"} /\ inv[p].projects # <<>>) =>
      /\ Range(inv[p].sent) = {id \in Range(inv[p].projects) : id > inv[p].wmStart}
      /\ Len(inv[p].sent) = Cardinality(Range(inv[p].sent))

C1_Witness ==
  \E p \in Procs :
    /\ inv[p].pc = "done"
    /\ inv[p].wmStart = 112
    /\ inv[p].projects = <<115, 114, 113, 112>>
    /\ inv[p].sent = <<115, 114, 113>>
    /\ Watermark = 115

\* C2: no step of successive invocations lowers the watermark.
C2_WatermarkNeverDecreases == [][Watermark' >= Watermark]_vars

\* C3: an invocation in which a webhook send failed still calls the sender for
\* every new project, advances the watermark to the latest id and answers
\* success: true.
C3_FailedSendDoesNotAbort ==
  \A p \in Procs :
    (inv[p].pc = "done" /\ inv[p].failed # {}) =>
      /\ inv[p].sent = inv[p].newProjects
      /\ Watermark = inv[p].latestProjectId
      /\ inv[p].success = "true"

C3_Witness ==
  \E p \in Procs :
    /\ inv[p].pc = "done"
    /\ Len(inv[p].newProjects) >= 2
    /\ inv[p].newProjects[1] \in inv[p].failed
    /\ inv[p].sent = inv[p].newProjects
    /\ inv[p].success = "true"

\* C4 as stated: a store failure never ends in the success: false response.
C4_StoreFailureCaughtLocally ==
  \A p \in Procs : inv[p].threw # "none" => inv[p].success # "false"

\* C4 amended: a store failure reaches the catch of GET: the invocation ends with
\* success: false, writes nothing, leaves the stored watermark as it was at the
\* start, and after a failed read it has called the sender for no project.
C4_StoreFailureEscapes ==
  \A p \in Procs :
    inv[p].threw # "none" =>
      /\ inv[p].pc = "done"
      /\ inv[p].success = "false"
      /\ ~inv[p].wrote
      /\ Watermark = inv[p].wmStart
      /\ (inv[p].threw = "get" => inv[p].sent = <<>>)
      /\ (inv[p].threw = "set" => inv[p].sent = inv[p].newProjects)

C4_Witness ==
  \E p \in Procs :
    /\ inv[p].threw = "set"
    /\ inv[p].success = "false"
    /\ Len(inv[p].sent) >= 1
    /\ Watermark < inv[p].latestProjectId

\* C5: once two overlapping invocations that read the same watermark value have
\* both finished their sends, every project above that value that both fetched
\* has had at least two notifications attempted.
C5_SameReadSendsTwice ==
  \A p, q \in Procs :
    (/\ p # q
     /\ inv[p].pc \in {"set", "done"} /\ inv[q].pc \in {"set", "done"}
     /\ inv[p].last # 0 /\ inv[p].last = inv[q].last) =>
       \A id \in Range(inv[p].projects) \cap Range(inv[q].projects) :
         id > inv[p].last => attempts[id] >= 2

C5_Witness ==
  /\ inv[1].pc = "set" /\ inv[2].pc = "set"
  /\ inv[1].last = inv[2].last
  /\ store = <<>>
  /\ \E id \in Ids : id \in Range(inv[1].sent) /\ id \in Range(inv[2].sent) /\ attempts[id] = 2

\* C6: a write of the watermark stores the writer's own latest id whatever the
\* store holds at that moment.
C6_WriteIsBlind ==
  [][\A p \in Procs :
       (inv[p].pc = "set" /\ inv'[p].pc = "done") => store' = <<inv[p].latestProjectId>>]_vars

C6_Witness ==
  /\ store # <<>>
  /\ store[1] < maxWritten
  /\ \E p \in Procs : inv[p].pc = "done" /\ inv[p].wrote /\ inv[p].latestProjectId = store[1]

\* C7: when the invocation after one that was terminated between its first send
\* and its write finishes having fetched the projects the terminated one sent,
\* it has sent each of them again.
C7_ResentAfterCrash ==
  \A p \in Procs :
    (/\ inv[p].pc = "done"
     /\ crashSent # {}
     /\ crashSent \subseteq Range(inv[p].projects)) =>
       /\ crashSent \subseteq Range(inv[p].sent)
       /\ \A id \in crashSent : attempts[id] >= 2

C7_Witness ==
  \E p \in Procs :
    /\ inv[p].pc = "done"
    /\ crashSent # {}
    /\ crashSent \subseteq Range(inv[p].sent)
    /\ \A id \in crashSent : attempts[id] = 2

C10_AtMostOnce == \A id \in Ids : attempts[id] <= 1

C10_Witness ==
  \E p \in Procs, id \in Ids :
    /\ id \in failedIds
    /\ attempts[id] = 1
    /\ invocations >= 2
    /\ inv[p].pc = "done"
    /\ id \in Range(inv[p].projects)
    /\ id \notin Range(inv[p].sent)
    /\ inv[p].sent # <<>>
====
